---- MODULE Spec2Model ----
(***************************************************************************)
(* Model of pkg/kubelet/kuberuntime/kuberuntime_container_windows.go:      *)
(* applyPlatformSpecificContainerConfig and generateWindowsContainerConfig.*)
(*                                                                         *)
(* Both are pure computations over the container spec, the pod's isolation *)
(* annotation, the host CPU count, the effective security context and the  *)
(* WindowsGMSA feature gate.  Init draws one call's inputs from bounded    *)
(* sets; the single action performs the call.                              *)
(*                                                                         *)
(* Go pointers are modelled as sequences of length at most one: <<>> is    *)
(* nil and <<v>> points at v.  All quantities are non-negative, so Go's    *)
(* truncating int64 division coincides with \div.                          *)
(***************************************************************************)
EXTENDS Integers, Sequences, FiniteSets, TLC

\* ---------------------------------------------------------------- bounds
\* cpu limits are the multiples of 500m up to 500 * MaxLimitSteps, plus edges
MaxLimitSteps == 5
\* cpu requests are the multiples of 250m up to 250 * MaxRequestSteps
MaxRequestSteps == 1
\* results of the external millicore-to-shares mapping range over 0..MaxShares
MaxShares == 2

Nil == <<>>
Some(v) == <<v>>

CpuLimits == {500 * m : m \in 0..MaxLimitSteps} \cup {1, 999, 1001}
CpuRequests == {250 * m : m \in 0..MaxRequestSteps}
\* sysinfo.NumCPU(): a positive count, at most 64 on Windows (source comment)
HostCPUs == {1, 4, 64}
MemoryLimits == {0, 1024}
ShareVals == 0..MaxShares
Usernames == {"", "alice"}
RunAsUsers == {Nil, Some(1000)}
WindowsOptionsValues ==
    {Nil} \cup { Some([GMSACredentialSpec |-> g, RunAsUserName |-> u]) :
                   g \in {Nil, Some("gmsa-spec")},
                   u \in {Nil, Some(""), Some("bob")} }

\* a WindowsContainerConfig left in config.Windows by the caller
PriorWindowsConfig ==
    [Resources |-> [CpuCount |-> 0, CpuShares |-> 0, CpuMaximum |-> 0,
                    MemoryLimitInBytes |-> 0],
     SecurityContext |-> [RunAsUsername |-> "prior", CredentialSpec |-> ""]]

VARIABLES
    cpuRequest,        \* container.Resources.Requests.Cpu().MilliValue()
    cpuLimit,          \* container.Resources.Limits.Cpu().MilliValue()
    memoryLimit,       \* container.Resources.Limits.Memory().Value()
    isolatedByHyperv,  \* kubeletapis.ShouldIsolatedByHyperV(pod.Annotations)
    numCPU,            \* sysinfo.NumCPU()
    sharesTable,       \* the external milliCPUToShares, at the points it is called
    effectiveSc,       \* securitycontext.DetermineEffectiveSecurityContext(pod, container)
    username,          \* the username parameter
    windowsGMSA,       \* DefaultFeatureGate.Enabled(kubefeatures.WindowsGMSA)
    config,            \* *runtimeapi.ContainerConfig (its Windows field)
    err,               \* the error applyPlatformSpecificContainerConfig returned
    warnings,          \* the klog warnings emitted
    pc                 \* "call" before the call, "done" after it

vars == <<cpuRequest, cpuLimit, memoryLimit, isolatedByHyperv, numCPU,
          sharesTable, effectiveSc, username, windowsGMSA, config, err,
          warnings, pc>>

\* ------------------------------------------------------------ cpu maximum
\* line 62 without the division by the host's cpu count
CpuMaximumBase_NoHostCPUs(limitMilli, cpus) == (10000 * limitMilli) \div 1000

\* line 62
CpuMaximumBase(limitMilli, cpus) == ((10000 * limitMilli) \div cpus) \div 1000

\* line 64
HypervCpuCount(limitMilli) == (limitMilli + 999) \div 1000

\* line 68: evaluated left to right, the division by cpuCount comes first
HypervCpuMaximum(limitMilli, cpuCount) ==
    ((limitMilli \div cpuCount) * 10000) \div 1000

\* lines 71-76 without the lower bound
ClampCpuMaximum_NoLowerBound(cpuMaximum) ==
    IF cpuMaximum > 10000 THEN 10000 ELSE cpuMaximum

\* lines 71-76
ClampCpuMaximum(cpuMaximum) ==
    IF cpuMaximum < 1 THEN 1
    ELSE IF cpuMaximum > 10000 THEN 10000
    ELSE cpuMaximum

\* lines 57-79 with CpuCount assigned outside the Hyper-V branch
CpuLimitBlock_CountAlways(limitMilli, cpus, hyperv) ==
    IF limitMilli # 0
    THEN LET cpuCount == HypervCpuCount(limitMilli)
             cpuMaximum ==
                 IF hyperv /\ cpuCount # 0
                 THEN HypervCpuMaximum(limitMilli, cpuCount)
                 ELSE CpuMaximumBase(limitMilli, cpus)
         IN [CpuCount |-> cpuCount,
             CpuMaximum |-> ClampCpuMaximum(cpuMaximum)]
    ELSE [CpuCount |-> 0, CpuMaximum |-> 0]

\* lines 57-79: the CpuCount and CpuMaximum fields after the cpu-limit block
CpuLimitBlock(limitMilli, cpus, hyperv) ==
    IF limitMilli # 0
    THEN LET cpuCount == HypervCpuCount(limitMilli)
             cpuMaximum ==
                 IF hyperv /\ cpuCount # 0
                 THEN HypervCpuMaximum(limitMilli, cpuCount)
                 ELSE CpuMaximumBase(limitMilli, cpus)
         IN [CpuCount |-> IF hyperv THEN cpuCount ELSE 0,
             CpuMaximum |-> ClampCpuMaximum(cpuMaximum)]
    ELSE [CpuCount |-> 0, CpuMaximum |-> 0]

\* ------------------------------------------------------------- cpu shares
\* helper outside this file; an arbitrary non-negative mapping
milliCPUToShares(milliCPU, hyperv) == sharesTable[<<milliCPU, hyperv>>]

\* lines 81-85 without the fallback to the request
CpuSharesOf_NoFallback(limitMilli, requestMilli, hyperv) ==
    milliCPUToShares(limitMilli, hyperv)

\* lines 81-85
CpuSharesOf(limitMilli, requestMilli, hyperv) ==
    LET cpuShares == milliCPUToShares(limitMilli, hyperv)
    IN IF cpuShares = 0 THEN milliCPUToShares(requestMilli, hyperv)
       ELSE cpuShares

\* ------------------------------------------------------------- precedence
WarnCountOverShares == "CPUCount priority > CPUShares priority"
WarnCountOverMaximum == "CPUCount priority > CPUMaximum priority"
WarnSharesOverMaximum == "CPUShares priority > CPUMaximum priority"

\* lines 91-106 with the CpuShares branch leaving CpuMaximum in place
ResolvePrecedence_SharesKeepMaximum(res) ==
    IF res.CpuCount > 0
    THEN [res EXCEPT !.CpuShares = 0, !.CpuMaximum = 0]
    ELSE res

\* lines 91-106: res has the fields CpuCount, CpuShares, CpuMaximum
ResolvePrecedence(res) ==
    IF res.CpuCount > 0
    THEN [res EXCEPT !.CpuShares = 0, !.CpuMaximum = 0]
    ELSE IF res.CpuShares > 0
    THEN [res EXCEPT !.CpuMaximum = 0]
    ELSE res

\* lines 91-106: the warnings logged while resolving
PrecedenceWarnings(res) ==
    IF res.CpuCount > 0
    THEN (IF res.CpuShares > 0 THEN {WarnCountOverShares} ELSE {})
         \cup (IF res.CpuMaximum > 0 THEN {WarnCountOverMaximum} ELSE {})
    ELSE IF res.CpuShares > 0 /\ res.CpuMaximum > 0
    THEN {WarnSharesOverMaximum}
    ELSE {}

\* line 87 with the precedence applied under either isolation mode
ApplyPrecedence_AnyIsolation(res, hyperv) ==
    IF res.CpuShares > 0 THEN [res EXCEPT !.CpuMaximum = 0] ELSE res

\* line 87
ApplyPrecedence(res, hyperv) ==
    IF ~hyperv THEN ResolvePrecedence(res) ELSE res

\* line 87
LoggedWarnings(res, hyperv) ==
    IF ~hyperv THEN PrecedenceWarnings(res) ELSE {}

\* lines 54-112: wc.Resources
WindowsResources(limitMilli, requestMilli, cpus, hyperv, memLimit) ==
    LET blk == CpuLimitBlock(limitMilli, cpus, hyperv)
        res == ApplyPrecedence(
                   [CpuCount |-> blk.CpuCount,
                    CpuShares |-> CpuSharesOf(limitMilli, requestMilli, hyperv),
                    CpuMaximum |-> blk.CpuMaximum], hyperv)
    IN [CpuCount |-> res.CpuCount, CpuShares |-> res.CpuShares,
        CpuMaximum |-> res.CpuMaximum,
        MemoryLimitInBytes |-> IF memLimit # 0 THEN memLimit ELSE 0]

\* lines 54-107: the warnings of the whole resource computation
ResourceWarnings(limitMilli, requestMilli, cpus, hyperv) ==
    LET blk == CpuLimitBlock(limitMilli, cpus, hyperv)
    IN LoggedWarnings(
           [CpuCount |-> blk.CpuCount,
            CpuShares |-> CpuSharesOf(limitMilli, requestMilli, hyperv),
            CpuMaximum |-> blk.CpuMaximum], hyperv)

\* ------------------------------------------------------- security context
\* lines 129-132 with an empty override treated as absent
RunAsUsernameOf_SkipEmptyOverride(sc, name) ==
    LET initial == IF name # "" THEN name ELSE ""
    IN IF sc.WindowsOptions # Nil /\ sc.WindowsOptions[1].RunAsUserName # Nil
          /\ sc.WindowsOptions[1].RunAsUserName[1] # ""
       THEN sc.WindowsOptions[1].RunAsUserName[1]
       ELSE initial

\* lines 120-122 and 129-132
RunAsUsernameOf(sc, name) ==
    LET initial == IF name # "" THEN name ELSE ""
    IN IF sc.WindowsOptions # Nil /\ sc.WindowsOptions[1].RunAsUserName # Nil
       THEN sc.WindowsOptions[1].RunAsUserName[1]
       ELSE initial

\* lines 123-127 without the feature-gate test
CredentialSpecOf_NoFeatureGate(sc, gmsa) ==
    IF sc.WindowsOptions # Nil /\ sc.WindowsOptions[1].GMSACredentialSpec # Nil
    THEN sc.WindowsOptions[1].GMSACredentialSpec[1]
    ELSE ""

\* lines 123-127
CredentialSpecOf(sc, gmsa) ==
    IF gmsa /\ sc.WindowsOptions # Nil
            /\ sc.WindowsOptions[1].GMSACredentialSpec # Nil
    THEN sc.WindowsOptions[1].GMSACredentialSpec[1]
    ELSE ""

ErrRunAsUID == "run as uid is not supported on Windows"

\* line 117
RunAsUserRejected(sc) == sc.RunAsUser # Nil

\* lines 48-135: the pair (config, error) returned
generateWindowsContainerConfig(limitMilli, requestMilli, cpus, hyperv, memLimit, sc, name, gmsa) ==
    IF RunAsUserRejected(sc)
    THEN [wc |-> Nil, err |-> Some(ErrRunAsUID)]
    ELSE [wc |-> Some([Resources |->
                          WindowsResources(limitMilli, requestMilli, cpus,
                                           hyperv, memLimit),
                       SecurityContext |->
                          [RunAsUsername |-> RunAsUsernameOf(sc, name),
                           CredentialSpec |-> CredentialSpecOf(sc, gmsa)]]),
          err |-> Nil]

\* lines 36-44 with config.Windows assigned before the error test
ConfigAfterApply_AssignFirst(cfg, result) ==
    [cfg EXCEPT !.Windows = result.wc]

\* lines 36-44: the value of config.Windows after the call
ConfigAfterApply(cfg, result) ==
    IF result.err # Nil THEN cfg
    ELSE [cfg EXCEPT !.Windows = result.wc]

\* ------------------------------------------------------------ the machine
Init ==
    /\ cpuRequest \in CpuRequests
    /\ cpuLimit \in CpuLimits
    /\ memoryLimit \in MemoryLimits
    /\ isolatedByHyperv \in BOOLEAN
    /\ numCPU \in HostCPUs
    /\ sharesTable \in [{<<cpuLimit, isolatedByHyperv>>,
                         <<cpuRequest, isolatedByHyperv>>} -> ShareVals]
    /\ effectiveSc \in [RunAsUser : RunAsUsers,
                        WindowsOptions : WindowsOptionsValues]
    /\ username \in Usernames
    /\ windowsGMSA \in BOOLEAN
    /\ config \in [Windows : {Nil, Some(PriorWindowsConfig)}]
    /\ err = Nil
    /\ warnings = {}
    /\ pc = "call"

applyPlatformSpecificContainerConfig ==
    /\ pc = "call"
    /\ LET result == generateWindowsContainerConfig(
                         cpuLimit, cpuRequest, numCPU, isolatedByHyperv,
                         memoryLimit, effectiveSc, username, windowsGMSA)
       IN /\ config' = ConfigAfterApply(config, result)
          /\ err' = result.err
    /\ warnings' = ResourceWarnings(cpuLimit, cpuRequest, numCPU,
                                    isolatedByHyperv)
    /\ pc' = "done"
    /\ UNCHANGED <<cpuRequest, cpuLimit, memoryLimit, isolatedByHyperv,
                   numCPU, sharesTable, effectiveSc, username, windowsGMSA>>

Next == applyPlatformSpecificContainerConfig

Spec == Init /\ [][Next]_vars

\* ---------------------------------------------------------- observations
Returned == pc = "done" /\ err = Nil
Out == config.Windows[1]
LimitShares == milliCPUToShares(cpuLimit, isolatedByHyperv)
RequestShares == milliCPUToShares(cpuRequest, isolatedByHyperv)

TypeOK ==
    /\ pc \in {"call", "done"}
    /\ err \in {Nil, Some(ErrRunAsUID)}
    /\ Returned => Len(config.Windows) = 1
\* --------------------------------------------------------------- claims
Controls == {"CpuCount", "CpuShares", "CpuMaximum"}
NonZeroControls == {f \in Controls : Out.Resources[f] # 0}
\* the shares value lines 81-85 assign, written out
ExpectedShares == IF LimitShares # 0 THEN LimitShares ELSE RequestShares
\* lines 62 and 71-76 written out for the current inputs
ExpectedDefaultMaximum ==
    LET m == ((10000 * cpuLimit) \div numCPU) \div 1000
    IN IF m < 1 THEN 1 ELSE IF m > 10000 THEN 10000 ELSE m
CeilDiv(a, b) == IF a % b = 0 THEN a \div b ELSE (a \div b) + 1
HasOverride ==
    /\ effectiveSc.WindowsOptions # Nil
    /\ effectiveSc.WindowsOptions[1].RunAsUserName # Nil
HasCredentialSpec ==
    /\ effectiveSc.WindowsOptions # Nil
    /\ effectiveSc.WindowsOptions[1].GMSACredentialSpec # Nil

\* C1: under Default (non-Hyper-V) isolation the returned resource record has
\* at most one of CpuCount, CpuShares, CpuMaximum non-zero.
C1_MutualExclusion ==
    (Returned /\ ~isolatedByHyperv) => Cardinality(NonZeroControls) <= 1

\* a limit and a share weight were both computed, and the maximum was dropped
C1_Witness ==
    /\ Returned /\ ~isolatedByHyperv
    /\ cpuLimit = 2500 /\ LimitShares > 0
    /\ WarnSharesOverMaximum \in warnings
    /\ NonZeroControls = {"CpuShares"}

\* C2 as stated: under Default isolation with a cpu limit, the cpuMaximum of
\* the returned record lies in [1, 10000].
C2_OutputMaximumInRange ==
    (Returned /\ ~isolatedByHyperv /\ cpuLimit > 0 /\ numCPU > 0)
        => Out.Resources.CpuMaximum \in 1..10000

\* C2 amended: under Default isolation with a cpu limit, the clamped value
\* assigned at line 78 lies in [1, 10000]; the returned cpuMaximum is that
\* value when the returned cpuShares is 0, and 0 otherwise.
C2_ClampedMaximumInRange ==
    (Returned /\ ~isolatedByHyperv /\ cpuLimit > 0 /\ numCPU > 0)
        => LET assigned == CpuLimitBlock(cpuLimit, numCPU, FALSE).CpuMaximum
           IN /\ assigned \in 1..10000
              /\ Out.Resources.CpuMaximum =
                     IF Out.Resources.CpuShares > 0 THEN 0 ELSE assigned

\* a 1m limit on a 64-cpu host computes 0 and is raised to 1
C2_Witness ==
    /\ Returned /\ ~isolatedByHyperv
    /\ cpuLimit = 1 /\ numCPU = 64
    /\ Out.Resources.CpuShares = 0
    /\ Out.Resources.CpuMaximum = 1

\* C3: under Hyper-V isolation with a cpu limit, cpuCount is
\* ceil(cpuLimitMilli / 1000) and the cpuMaximum computed before clamping is
\* cpuLimitMilli * 10000 / (cpuCount * 1000); 2500m gives 3 and 8333.
C3_HypervCountAndMaximum ==
    (Returned /\ isolatedByHyperv /\ cpuLimit > 0)
        => /\ Out.Resources.CpuCount = CeilDiv(cpuLimit, 1000)
           /\ Out.Resources.CpuCount > 0 =>
                  HypervCpuMaximum(cpuLimit, Out.Resources.CpuCount)
                      = (cpuLimit * 10000) \div (Out.Resources.CpuCount * 1000)
           /\ cpuLimit = 2500 =>
                  /\ Out.Resources.CpuCount = 3
                  /\ Out.Resources.CpuMaximum = 8333

\* C4: with a non-nil effective RunAsUser the call returns an error and no
\* configuration, whatever the other inputs, and config.Windows is unchanged.
C4_RunAsUserRejected ==
    [][(pc = "call" /\ effectiveSc.RunAsUser # Nil)
        => /\ generateWindowsContainerConfig(
                  cpuLimit, cpuRequest, numCPU, isolatedByHyperv, memoryLimit,
                  effectiveSc, username, windowsGMSA).wc = Nil
           /\ err' = Some(ErrRunAsUID)
           /\ config' = config]_vars

\* rejected although a username, a credential spec and the gate were all set,
\* and the caller's earlier config.Windows is still in place
C4_Witness ==
    /\ pc = "done" /\ effectiveSc.RunAsUser # Nil
    /\ err = Some(ErrRunAsUID)
    /\ config.Windows = Some(PriorWindowsConfig)
    /\ username = "alice" /\ windowsGMSA /\ HasCredentialSpec /\ HasOverride
    /\ isolatedByHyperv /\ cpuLimit = 2500

\* C5: with a nil RunAsUser, RunAsUsername is the Windows RunAsUserName
\* override when one is present (even an empty one), else the supplied
\* username.
C5_OverrideWins ==
    Returned => Out.SecurityContext.RunAsUsername =
                    IF HasOverride
                    THEN effectiveSc.WindowsOptions[1].RunAsUserName[1]
                    ELSE username

\* an empty override replaced a non-empty supplied username
C5_Witness ==
    /\ Returned /\ username = "alice"
    /\ HasOverride /\ effectiveSc.WindowsOptions[1].RunAsUserName[1] = ""
    /\ Out.SecurityContext.RunAsUsername = ""

\* C6: cpuShares is the mapping of the limit when that is non-zero, else the
\* mapping of the request; if the mapping sends 0 to 0, a zero limit and a
\* zero request give cpuShares = 0 under both isolation modes.
C6_SharesFallback ==
    Returned =>
        /\ Out.Resources.CpuShares = ExpectedShares
        /\ (cpuLimit = 0 /\ cpuRequest = 0
                /\ sharesTable[<<0, isolatedByHyperv>>] = 0)
               => Out.Resources.CpuShares = 0

\* the limit mapped to 0 and the request's shares were used instead
C6_Witness ==
    /\ Returned
    /\ cpuLimit = 0 /\ cpuRequest > 0
    /\ LimitShares = 0 /\ RequestShares > 0
    /\ Out.Resources.CpuShares = RequestShares

\* C7: under Default isolation, computed cpuShares > 0 forces the returned
\* cpuMaximum to 0; the returned cpuMaximum is non-zero only when cpuCount and
\* cpuShares are both 0, and then it is the clamped
\* 10000 * cpuLimitMilli / hostCPUCount / 1000.
C7_SharesOverMaximum ==
    (Returned /\ ~isolatedByHyperv) =>
        /\ ExpectedShares > 0 => Out.Resources.CpuMaximum = 0
        /\ Out.Resources.CpuMaximum # 0 =>
               /\ Out.Resources.CpuCount = 0
               /\ Out.Resources.CpuShares = 0
               /\ Out.Resources.CpuMaximum = ExpectedDefaultMaximum

\* 2500m on 4 cpus computes 6250, and the shares suppress it
C7_Witness ==
    /\ Returned /\ ~isolatedByHyperv
    /\ cpuLimit = 2500 /\ numCPU = 4
    /\ ExpectedDefaultMaximum = 6250
    /\ ExpectedShares > 0
    /\ Out.Resources.CpuMaximum = 0

\* C8: with a nil RunAsUser, CredentialSpec is the effective context's
\* GMSACredentialSpec exactly when the WindowsGMSA gate is enabled and the
\* credential spec is present, and the empty string otherwise.
C8_CredentialSpec ==
    Returned => Out.SecurityContext.CredentialSpec =
                    IF windowsGMSA /\ HasCredentialSpec
                    THEN effectiveSc.WindowsOptions[1].GMSACredentialSpec[1]
                    ELSE ""

\* a credential spec is present but the gate is off, so none is returned
C8_Witness ==
    /\ Returned /\ ~windowsGMSA /\ HasCredentialSpec
    /\ username = "alice" /\ HasOverride
    /\ Out.SecurityContext.CredentialSpec = ""

\* C9: under Hyper-V isolation with a cpu limit, cpuCount >= 1, cpuMaximum is
\* in [1, 10000] and cpuShares is the computed value: nothing is zeroed.
C9_HypervNoPrecedence ==
    (Returned /\ isolatedByHyperv /\ cpuLimit > 0) =>
        /\ Out.Resources.CpuCount >= 1
        /\ Out.Resources.CpuMaximum \in 1..10000
        /\ Out.Resources.CpuShares = ExpectedShares
        /\ warnings = {}

\* all three controls are non-zero together
C9_Witness ==
    /\ Returned /\ isolatedByHyperv /\ cpuLimit > 0
    /\ NonZeroControls = Controls

\* C10: under Default isolation cpuCount is 0 and the cpuCount branch of the
\* precedence step is never taken; with no cpu limit, cpuCount and cpuMaximum
\* are both 0 under either isolation mode.
C10_CountOnlyUnderHyperv ==
    /\ (pc = "done" /\ ~isolatedByHyperv) =>
           warnings \cap {WarnCountOverShares, WarnCountOverMaximum} = {}
    /\ (Returned /\ ~isolatedByHyperv) => Out.Resources.CpuCount = 0
    /\ (Returned /\ cpuLimit = 0) =>
           /\ Out.Resources.CpuCount = 0
           /\ Out.Resources.CpuMaximum = 0

\* a multi-core limit under Default isolation leaves cpuCount at 0
C10_Witness ==
    /\ Returned /\ ~isolatedByHyperv
    /\ cpuLimit = 2500 /\ LimitShares > 0
    /\ Out.Resources.CpuCount = 0
    /\ Out.Resources.CpuShares = LimitShares
====
